---- MODULE Spec2Model ----
(***************************************************************************)
(* A model of the protovis ordinal scale (pv.Scale.ordinal) and of the     *)
(* dot mark's implied-property resolution (pv.Dot.prototype.buildImplied). *)
(*                                                                         *)
(* JavaScript numbers are modelled as exact rationals <<n, q>> in lowest   *)
(* terms with q > 0, extended with the three non-finite values of IEEE     *)
(* arithmetic: <<1, 0>> is Infinity, <<-1, 0>> is -Infinity and <<0, 0>>   *)
(* is NaN.  <<0, -1>> stands for undefined / null.  Rounding error of      *)
(* binary floating point is not modelled; negative zero is not modelled.   *)
(***************************************************************************)
EXTENDS Integers, Sequences, FiniteSets, TLC

(***************************************************************************)
(* Numbers                                                                 *)
(***************************************************************************)
Abs(n) == IF n < 0 THEN -n ELSE n

Sign(n) == IF n < 0 THEN -1 ELSE IF n > 0 THEN 1 ELSE 0

gcd[a \in Nat, b \in Nat] == IF b = 0 THEN a ELSE gcd[b, a % b]

GCD(a, b) == gcd[a, b]

Norm(n, q) ==
  IF q = 0 THEN <<Sign(n), 0>>
  ELSE LET g == GCD(Abs(n), Abs(q))
       IN  IF q > 0 THEN <<n \div g, q \div g>>
                    ELSE <<(-n) \div g, (-q) \div g>>

Num(n) == <<n, 1>>
Frac(n, q) == Norm(n, q)
NaN == <<0, 0>>
PosInf == <<1, 0>>
NegInf == <<-1, 0>>
Undefined == <<0, -1>>

IsNaN(a) == a = NaN
IsFinite(a) == a[2] > 0

\* ToNumber: undefined converts to NaN
ToNumber(a) == IF a = Undefined THEN NaN ELSE a

Neg(a) == LET x == ToNumber(a) IN <<-x[1], x[2]>>

Add(a, b) ==
  LET x == ToNumber(a)
      y == ToNumber(b)
  IN  IF IsNaN(x) \/ IsNaN(y) THEN NaN
      ELSE IF ~IsFinite(x) /\ ~IsFinite(y) THEN (IF x = y THEN x ELSE NaN)
      ELSE IF ~IsFinite(x) THEN x
      ELSE IF ~IsFinite(y) THEN y
      ELSE Norm(x[1] * y[2] + y[1] * x[2], x[2] * y[2])

Sub(a, b) == Add(a, Neg(b))

Mul(a, b) ==
  LET x == ToNumber(a)
      y == ToNumber(b)
  IN  IF IsNaN(x) \/ IsNaN(y) THEN NaN
      ELSE Norm(x[1] * y[1], x[2] * y[2])

Div(a, b) ==
  LET x == ToNumber(a)
      y == ToNumber(b)
  IN  IF IsNaN(x) \/ IsNaN(y) THEN NaN
      ELSE IF ~IsFinite(x) /\ ~IsFinite(y) THEN NaN
      ELSE IF y[1] < 0 THEN Norm(-(x[1] * y[2]), x[2] * (-y[1]))
      ELSE Norm(x[1] * y[2], x[2] * y[1])

\* a < b; false when either side is NaN
Lt(a, b) ==
  LET x == ToNumber(a)
      y == ToNumber(b)
  IN  IF IsNaN(x) \/ IsNaN(y) THEN FALSE
      ELSE IF ~IsFinite(x) /\ ~IsFinite(y) THEN x[1] < y[1]
      ELSE IF ~IsFinite(x) THEN x[1] < 0
      ELSE IF ~IsFinite(y) THEN y[1] > 0
      ELSE x[1] * y[2] < y[1] * x[2]

Gt(a, b) == Lt(b, a)

\* a >= b; false when either side is NaN
Ge(a, b) == ~IsNaN(ToNumber(a)) /\ ~IsNaN(ToNumber(b)) /\ ~Lt(a, b)

Le(a, b) == Ge(b, a)

\* a === b on numbers: NaN equals nothing
StrictEq(a, b) == ~IsNaN(a) /\ ~IsNaN(b) /\ a = b

\* |a - b|
Dist(a, b) == LET x == Sub(a, b) IN IF Lt(x, Num(0)) THEN Neg(x) ELSE x

\* Math.round: the nearest integer, halves rounded towards +Infinity
MathRound(a) ==
  IF ~IsFinite(a) THEN a
  ELSE Num((2 * a[1] + a[2]) \div (2 * a[2]))

\* Math.sqrt on rationals whose numerator and denominator are squares
ISqrt(n) == CHOOSE k \in 0..n : k * k = n

MathSqrt(a) ==
  IF IsNaN(a) \/ Lt(a, Num(0)) THEN NaN
  ELSE IF ~IsFinite(a) THEN a
  ELSE Norm(ISqrt(a[1]), ISqrt(a[2]))

(***************************************************************************)
(* Bounds and input sets                                                   *)
(***************************************************************************)
\* longest array handed to domain(...) or to the constructor
MaxLen == 2
\* longest array handed to range(...)
MaxRangeLen == 1

\* Domain values.  "constructor" is a property every JavaScript object
\* inherits from Object.prototype.
Values == {"a", "b", "constructor"}
ObjectPrototypeKeys == {"constructor"}

RangeValues == {Num(10), Num(20)}
\* (min, max) arguments of the split operations
Intervals == {<<Num(30), Num(150)>>, <<Num(150), Num(30)>>, <<Num(30), Num(30)>>}
\* band arguments; Undefined is an omitted argument
Bands == {Undefined, Num(0), Frac(1, 2), Num(-20)}
\* pixel values handed to invertIndex
Pixels == {Num(20), Num(80), Num(140), Num(150)}

SeqsUpTo(S, n) == UNION {[1..k -> S] : k \in 0..n}

Elems(q) == {q[k] : k \in 1..Len(q)}

(***************************************************************************)
(* Scale state: the closure variables d, i, r of pv.Scale.ordinal.  r is   *)
(* the range array together with the properties the code attaches to it.   *)
(* last records the latest call, its arguments and what it returned.       *)
(***************************************************************************)
VARIABLES d, i, r, last, s, pre, built, anchorMark

scaleVars == <<d, i, r, last>>

dotVars == <<s, pre, built, anchorMark>>

vars == <<d, i, r, last, s, pre, built, anchorMark>>

\* a fresh array: none of min, max, step, band, margin is set
NewArray(elems) ==
  [elems |-> elems, min |-> Undefined, max |-> Undefined,
   step |-> Undefined, band |-> Undefined, margin |-> Undefined]

NoCall ==
  [op |-> "new", x |-> "", arr |-> <<>>, min |-> Undefined, max |-> Undefined,
   band |-> Undefined, y |-> Undefined, ret |-> Undefined, raised |-> FALSE,
   d0 |-> <<>>]

\* x in obj, for an object created by {}: own keys and inherited ones
HasKey(obj, x) == x \in DOMAIN obj \/ x \in ObjectPrototypeKeys

\* pv.numerate(keys): a map from each key to its index
numerate(keys) ==
  [k \in Elems(keys) |-> (CHOOSE j \in 1..Len(keys) :
      keys[j] = k /\ \A m \in (j + 1)..Len(keys) : keys[m] # k) - 1]

\* pv.array(len, dv): len copies of dv
pvArray(len, dv) == [k \in 1..len |-> dv]

\* pv.range(start, stop, step): start + k*step for k = 0, 1, ... while it is
\* before stop (after stop for a negative step); stop itself is excluded.
\* It raises "range must be finite" when (stop - start) / step is Infinity.
RECURSIVE pvRangeFrom(_, _, _, _)
pvRangeFrom(start, stop, step, k) ==
  LET j == Add(start, Mul(step, Num(k)))
  IN  IF (IF Lt(step, Num(0)) THEN Gt(j, stop) ELSE Lt(j, stop))
      THEN <<j>> \o pvRangeFrom(start, stop, step, k + 1)
      ELSE <<>>

pvRangeRaises(start, stop, step) == Div(Sub(stop, start), step) = PosInf

pvRange(start, stop, step) == pvRangeFrom(start, stop, step, 0)

(***************************************************************************)
(* scale.domain(array): keeps the first occurrence of each value           *)
(***************************************************************************)
RECURSIVE uniqueFrom(_, _, _, _)
uniqueFrom(array, j, seen, acc) ==
  IF j > Len(array) THEN acc
  ELSE LET o == array[j]
       IN  IF ~HasKey(seen, o)
           THEN uniqueFrom(array, j + 1,
                           [k \in DOMAIN seen \cup {o} |-> TRUE], Append(acc, o))
           ELSE uniqueFrom(array, j + 1, seen, acc)

unique(array) == uniqueFrom(array, 1, <<>>, <<>>)

domain(array) ==
  /\ d' = unique(array)
  /\ i' = numerate(d')
  /\ last' = [NoCall EXCEPT !.op = "domain", !.arr = array]
  /\ UNCHANGED <<r, dotVars>>

(***************************************************************************)
(* scale(x)                                                                *)
(***************************************************************************)
\* r[k % r.length]; k is NaN when i[x] is not a number
lookup(rr, k) ==
  IF k < 0 \/ Len(rr.elems) = 0 THEN Undefined
  ELSE rr.elems[(k % Len(rr.elems)) + 1]

\* i[x] as a number: -1 stands for NaN (an inherited, non-numeric property)
indexOf(ii, x) == IF x \in DOMAIN ii THEN ii[x] ELSE -1

scale(x) ==
  /\ IF ~HasKey(i, x)
     THEN /\ d' = Append(d, x)
          /\ i' = [k \in DOMAIN i \cup {x} |-> IF k = x THEN Len(d) ELSE i[k]]
     ELSE UNCHANGED <<d, i>>
  /\ last' = [NoCall EXCEPT !.op = "scale", !.x = x, !.d0 = d,
                            !.ret = lookup(r, indexOf(i', x))]
  /\ UNCHANGED <<r, dotVars>>

(***************************************************************************)
(* scale.range(array)                                                      *)
(***************************************************************************)
range(array) ==
  /\ r' = [NewArray(array) EXCEPT
             !.min = IF Len(array) > 0 THEN array[1] ELSE Undefined,
             !.max = IF Len(array) > 0 THEN array[Len(array)] ELSE Undefined]
  /\ last' = [NoCall EXCEPT !.op = "range"]
  /\ UNCHANGED <<d, i, dotVars>>

(***************************************************************************)
(* The split operations.  Each ...Result operator is the body of the       *)
(* method: given the range rr held on entry, the domain length N and the   *)
(* arguments, it yields the range left in r and whether the call raised.   *)
(* A call that raises leaves the scale as it was.                          *)
(***************************************************************************)
Outcome(rr, raised) == [r |-> rr, raised |-> raised]

\* step = (max - min) / N
splitStep(min, max, N) == Div(Sub(max, min), Num(N))

\* a variant that starts at min, without the half-step inset
splitStart_noInset(min, step) == min

\* min + step / 2, the first point
splitStart(min, step) == Add(min, Div(step, Num(2)))

splitResult(rr, N, min, max) ==
  LET R == Sub(max, min)
      degenerate == StrictEq(R, Num(0))
      step == IF ~degenerate /\ N # 0 THEN splitStep(min, max, N) ELSE Num(0)
      arr == IF degenerate THEN NewArray(pvArray(N, min))
             ELSE IF N # 0 THEN NewArray(pvRange(splitStart(min, step), max, step))
             ELSE rr
  IN  IF ~degenerate /\ N # 0 /\ pvRangeRaises(splitStart(min, step), max, step)
      THEN Outcome(rr, TRUE)
      ELSE Outcome([arr EXCEPT !.min = min, !.max = max, !.step = step], FALSE)

\* band == null ? 1 : band
bandOrOne(band) == IF band = Undefined THEN Num(1) ELSE band

splitBandedCenterResult(rr, N, min, max, band) ==
  LET o1 == splitResult(rr, N, min, max)
      r1 == o1.r
      b == Mul(r1.step, bandOrOne(band))
  IN  IF o1.raised THEN o1
      ELSE Outcome([r1 EXCEPT !.band = b, !.margin = Sub(r1.step, b),
                              !.min = min, !.max = max], FALSE)

\* B = (R * band) / N
flushCenterBand(R, band, N) == Div(Mul(R, band), Num(N))

\* M = N > 1 ? (R - N * B) / (N - 1) : 0
flushCenterMargin(R, B, N) ==
  IF N > 1 THEN Div(Sub(R, Mul(Num(N), B)), Num(N - 1)) ELSE Num(0)

splitBandedFlushCenterResult(rr, N, min, max, band) ==
  LET R == Sub(max, min)
      degenerate == StrictEq(R, Num(0))
      B == IF ~degenerate /\ N # 0 THEN flushCenterBand(R, bandOrOne(band), N)
           ELSE Num(0)
      M == IF ~degenerate /\ N # 0 THEN flushCenterMargin(R, B, N) ELSE Num(0)
      S == IF ~degenerate /\ N # 0 THEN Add(M, B) ELSE Num(0)
      start == Add(min, Div(B, Num(2)))
      arr == IF degenerate THEN NewArray(pvArray(N, min))
             ELSE IF N # 0 THEN NewArray(pvRange(start, max, S))
             ELSE rr
  IN  IF ~degenerate /\ N # 0 /\ pvRangeRaises(start, max, S)
      THEN Outcome(rr, TRUE)
      ELSE Outcome([arr EXCEPT !.step = S, !.band = B, !.margin = M,
                               !.min = min, !.max = max], FALSE)

\* step = (max - min) / (n - 1)
flushStep(min, max, n) == Div(Sub(max, min), Num(n - 1))

splitFlushResult(rr, n, min, max) ==
  LET step == flushStep(min, max, n)
      stop == Add(max, Div(step, Num(2)))
      arr == IF n = 1 THEN NewArray(<<Div(Add(min, max), Num(2))>>)
             ELSE NewArray(pvRange(min, stop, step))
  IN  IF n # 1 /\ pvRangeRaises(min, stop, step)
      THEN Outcome(rr, TRUE)
      ELSE Outcome([arr EXCEPT !.min = min, !.max = max], FALSE)

\* fixed-width mode: padding = (max - min - (-band * n)) / (n + 1)
bandedPadding(min, max, band, n) ==
  Div(Sub(Sub(max, min), Mul(Neg(band), Num(n))), Num(n + 1))

\* a variant that divides the interval by N alone
bandedStep_noMargin(min, max, band, N) == Div(Sub(max, min), Num(N))

\* fractional mode: step = (max - min) / (N + (1 - band))
bandedStep(min, max, band, N) ==
  Div(Sub(max, min), Add(Num(N), Sub(Num(1), band)))

splitBandedResult(rr, n, min, max, band) ==
  LET b == bandOrOne(band)
      padding == bandedPadding(min, max, b, n)
      step == bandedStep(min, max, b, n)
      fixed == Lt(b, Num(0))
      start == IF fixed THEN Add(min, padding)
               ELSE Add(min, Mul(step, Sub(Num(1), b)))
      by == IF fixed THEN Sub(padding, b) ELSE step
      arr == NewArray(pvRange(start, max, by))
      r1 == IF fixed THEN [arr EXCEPT !.band = Neg(b)]
            ELSE [arr EXCEPT !.band = Mul(step, b), !.step = step,
                             !.margin = Sub(step, Mul(step, b))]
  IN  IF pvRangeRaises(start, max, by)
      THEN Outcome(rr, TRUE)
      ELSE Outcome([r1 EXCEPT !.min = min, !.max = max], FALSE)

SplitOps ==
  {"split", "splitFlush", "splitBanded", "splitBandedCenter",
   "splitBandedFlushCenter"}

splitOutcome(op, rr, N, min, max, band) ==
  CASE op = "split" -> splitResult(rr, N, min, max)
    [] op = "splitFlush" -> splitFlushResult(rr, N, min, max)
    [] op = "splitBanded" -> splitBandedResult(rr, N, min, max, band)
    [] op = "splitBandedCenter" -> splitBandedCenterResult(rr, N, min, max, band)
    [] op = "splitBandedFlushCenter" ->
         splitBandedFlushCenterResult(rr, N, min, max, band)

\* The outcome for a non-empty domain does not read the range held on entry
\* (every branch then builds a fresh array), so it is tabulated once.
MaxN == Cardinality(Values \ ObjectPrototypeKeys)

outcomeTable ==
  [op \in SplitOps, N \in 1..MaxN, mm \in Intervals, band \in Bands |->
     splitOutcome(op, NewArray(<<>>), N, mm[1], mm[2], band)] @@ <<>>

outcomeOf(op, rr, N, min, max, band) ==
  IF N = 0 THEN splitOutcome(op, rr, N, min, max, band)
  ELSE LET o == outcomeTable[op, N, <<min, max>>, band]
       IN  IF o.raised THEN Outcome(rr, TRUE) ELSE o

splitCall(op, min, max, band) ==
  LET o == outcomeOf(op, r, Len(d), min, max, band)
  IN  /\ r' = o.r
      /\ last' = [NoCall EXCEPT !.op = op, !.min = min, !.max = max,
                                !.band = band, !.raised = o.raised]
      /\ UNCHANGED <<d, i, dotVars>>

split(min, max) == splitCall("split", min, max, Undefined)

splitFlush(min, max) == splitCall("splitFlush", min, max, Undefined)

splitBanded(min, max, band) == splitCall("splitBanded", min, max, band)

splitBandedCenter(min, max, band) == splitCall("splitBandedCenter", min, max, band)

splitBandedFlushCenter(min, max, band) ==
  splitCall("splitBandedFlushCenter", min, max, band)

(***************************************************************************)
(* scale.invertIndex(y), rounded mode and noRound mode                     *)
(***************************************************************************)
\* a variant that rounds down
invertRound_floor(x) == IF ~IsFinite(x) THEN x ELSE Num(x[1] \div x[2])

invertRound(x) == MathRound(x)

\* a variant without the zero-span check
invertIndexValue_noDegenerate(dd, rr, y, noRound) ==
  LET N == Len(dd)
      R == Sub(rr.max, rr.min)
      S == Div(R, Num(N))
  IN  IF N = 0 THEN Num(-1)
      ELSE IF Ge(y, rr.max) THEN Num(N)
      ELSE IF Lt(y, rr.min) THEN Num(0)
      ELSE LET k == Div(Sub(y, rr.min), S)
           IN  IF noRound THEN k ELSE MathRound(k)

invertIndexValue(dd, rr, y, noRound) ==
  LET N == Len(dd)
      R == Sub(rr.max, rr.min)
      S == Div(R, Num(N))
  IN  IF N = 0 THEN Num(-1)
      ELSE IF StrictEq(R, Num(0)) THEN Num(0)
      ELSE IF Ge(y, rr.max) THEN Num(N)
      ELSE IF Lt(y, rr.min) THEN Num(0)
      ELSE LET k == Div(Sub(y, rr.min), S)
           IN  IF noRound THEN k ELSE invertRound(k)

invertIndex(y, noRound) ==
  /\ last' = [NoCall EXCEPT !.op = IF noRound THEN "invertIndexNoRound"
                                    ELSE "invertIndex",
                            !.y = y,
                            !.ret = invertIndexValue(d, r, y, noRound)]
  /\ UNCHANGED <<d, i, r, dotVars>>

(***************************************************************************)
(* pv.Dot: a scene instance and buildImplied.  pre is the instance as the  *)
(* declared properties left it, s the instance after buildImplied; built   *)
(* tells whether buildImplied has run.  anchorMark is the anchor made by    *)
(* anchor(name), with the values its property functions last returned.     *)
(***************************************************************************)
Null == Undefined

\* declared values of shapeRadius, shapeSize (squares) and aspectRatio
Radii == {Null, Num(0), Frac(3, 2), Frac(9, 2)}
Sizes == {Null, Num(0), Num(4), Frac(81, 4)}
AspectRatios == {Null, Num(0), Num(1), Frac(1, 4), Num(4), Num(-1)}
\* what _width and _height hold before the build
StaleExtents == {Null, Num(7)}

\* resolved positional properties of the host
Lefts == {Num(10), Num(30)}
Tops == {Num(20), Num(40)}
Rights == {Num(60)}
Bottoms == {Num(70)}

Instances ==
  [shapeRadius : Radii, shapeSize : Sizes, aspectRatio : AspectRatios,
   _width : StaleExtents, _height : StaleExtents,
   left : {Num(10)}, top : {Num(20)}, right : Rights, bottom : Bottoms]

\* the instances a host is rebuilt with while an anchor is attached to it
AnchorInstances ==
  [shapeRadius : {Frac(3, 2), Frac(9, 2)}, shapeSize : {Null},
   aspectRatio : {Num(4)}, _width : {Null}, _height : {Null},
   left : Lefts, top : Tops, right : Rights, bottom : Bottoms]

NoInstance ==
  [shapeRadius |-> Null, shapeSize |-> Null, aspectRatio |-> Null,
   _width |-> Null, _height |-> Null,
   left |-> Null, top |-> Null, right |-> Null, bottom |-> Null]

\* the five anchors a dot supports
AnchorNames == {"top", "left", "center", "bottom", "right"}

\* the anchor's own scene instance: what its property functions returned
NoAnchorScene ==
  [left |-> Null, right |-> Null, top |-> Null, bottom |-> Null,
   textAlign |-> "", textBaseline |-> ""]

\* no anchor yet.  at is the host's instance when anchor(name) ran, prev the
\* host's instance of the build pass before the current one, fresh tells that
\* the anchor was evaluated after the host's latest build
NoAnchor ==
  [name |-> "", at |-> NoInstance, prev |-> NoInstance,
   scene |-> NoAnchorScene, evaluated |-> FALSE, fresh |-> FALSE]

\* pv.Mark.prototype.buildImplied: the base step; it changes none of the
\* fields modelled here (the positional properties arrive resolved)
markBuildImplied(inst) == inst

\* s.aspectRatio || 1
aspectOrOne(a) ==
  IF a = Null \/ IsNaN(a) \/ a = Num(0) THEN Num(1) ELSE a

\* the defaults applied when neither shapeRadius nor shapeSize is set
defaultShapeSize == Frac(81, 4)
defaultShapeRadius == Frac(9, 2)

\* a variant that takes the size itself as the radius
radiusFromSize_identity(z) == z

radiusFromSize(z) == MathSqrt(z)

sizeFromRadius(rad) == Mul(rad, rad)

\* a variant that divides by the aspect ratio itself
aspectHeight_noSqrt(rad, a) == Div(Mul(Num(2), rad), a)

\* h = 2 * r / Math.sqrt(a)
aspectHeight(rad, a) == Div(Mul(Num(2), rad), MathSqrt(a))

buildImpliedInstance(inst) ==
  LET r0 == inst.shapeRadius
      z0 == inst.shapeSize
      a == aspectOrOne(inst.aspectRatio)
      rad == IF r0 = Null
             THEN (IF z0 = Null THEN defaultShapeRadius ELSE radiusFromSize(z0))
             ELSE r0
      z == IF r0 = Null
           THEN (IF z0 = Null THEN defaultShapeSize ELSE z0)
           ELSE (IF z0 = Null THEN sizeFromRadius(r0) ELSE z0)
      circular == StrictEq(a, Num(1)) \/ Lt(a, Num(0))
      h == IF circular THEN Mul(Num(2), rad) ELSE aspectHeight(rad, a)
      w == IF circular THEN Mul(Num(2), rad) ELSE Mul(a, h)
  IN  markBuildImplied([inst EXCEPT !.shapeRadius = rad, !.shapeSize = z,
                                    !._height = h, !._width = w])

buildImplied(inst) ==
  /\ pre' = inst
  /\ s' = buildImpliedInstance(inst)
  /\ built' = TRUE
  /\ anchorMark' = IF anchorMark.name = "" THEN anchorMark
                   ELSE [anchorMark EXCEPT !.prev = s, !.fresh = FALSE]
  /\ UNCHANGED scaleVars

\* a variant that keeps the instance the host had when the anchor was made
sceneTarget_atConstruction == anchorMark.at

\* this.scene.target[this.index]: the host's instance the anchor reads
sceneTarget == s

\* a variant that takes the offset out of the right anchor
anchorLeft_noOffset(name, h) ==
  IF name = "left" THEN Null ELSE h.left

anchorLeft(name, h) ==
  CASE name \in {"bottom", "top", "center"} -> h.left
    [] name = "left" -> Null
    [] OTHER -> Add(h.left, Div(h._width, Num(2)))

anchorRight(name, h) ==
  IF name = "left" THEN Add(h.right, Div(h._width, Num(2))) ELSE Null

anchorTop(name, h) ==
  CASE name \in {"left", "right", "center"} -> h.top
    [] name = "top" -> Null
    [] OTHER -> Add(h.top, Div(h._height, Num(2)))

anchorBottom(name, h) ==
  IF name = "top" THEN Add(h.bottom, Div(h._height, Num(2))) ELSE Null

anchorTextAlign(name) ==
  CASE name = "left" -> "right"
    [] name \in {"bottom", "top", "center"} -> "center"
    [] OTHER -> "left"

anchorTextBaseline(name) ==
  CASE name \in {"right", "left", "center"} -> "middle"
    [] name = "bottom" -> "top"
    [] OTHER -> "bottom"

\* pv.Dot.prototype.anchor(name): a new anchor on this dot
anchor(name) ==
  /\ anchorMark' = [NoAnchor EXCEPT !.name = name, !.at = s, !.prev = s]
  /\ UNCHANGED <<scaleVars, s, pre, built>>

\* one build of the anchor: each property function is evaluated against the
\* host's instance, which the host's own build has resolved before
buildAnchor ==
  /\ anchorMark.name # ""
  /\ built
  /\ LET h == sceneTarget
         name == anchorMark.name
     IN  anchorMark' =
           [anchorMark EXCEPT
              !.scene = [left |-> anchorLeft(name, h),
                         right |-> anchorRight(name, h),
                         top |-> anchorTop(name, h),
                         bottom |-> anchorBottom(name, h),
                         textAlign |-> anchorTextAlign(name),
                         textBaseline |-> anchorTextBaseline(name)],
              !.evaluated = TRUE,
              !.fresh = TRUE]
  /\ UNCHANGED <<scaleVars, s, pre, built>>

(***************************************************************************)
(* Specifications                                                          *)
(***************************************************************************)
\* pv.Scale.ordinal(...): the constructor applies domain to its arguments
Init ==
  /\ \E array \in SeqsUpTo(Values, MaxLen) :
       /\ d = unique(array)
       /\ i = numerate(d)
  /\ r = NewArray(<<>>)
  /\ last = NoCall
  /\ s = NoInstance
  /\ pre = NoInstance
  /\ built = FALSE
  /\ anchorMark = NoAnchor

Next ==
  \/ \E array \in SeqsUpTo(Values, MaxLen) : domain(array)
  \/ \E x \in Values : scale(x)
  \/ \E array \in SeqsUpTo(RangeValues, MaxRangeLen) : range(array)
  \/ \E mm \in Intervals : split(mm[1], mm[2])
  \/ \E mm \in Intervals : splitFlush(mm[1], mm[2])
  \/ \E mm \in Intervals, band \in Bands : splitBanded(mm[1], mm[2], band)
  \/ \E mm \in Intervals, band \in Bands : splitBandedCenter(mm[1], mm[2], band)
  \/ \E mm \in Intervals, band \in Bands : splitBandedFlushCenter(mm[1], mm[2], band)
  \/ \E y \in Pixels, noRound \in BOOLEAN : invertIndex(y, noRound)

Spec == Init /\ [][Next]_vars

\* new pv.Dot(): no scene instance has been built
InitDot ==
  /\ d = <<>>
  /\ i = numerate(d)
  /\ r = NewArray(<<>>)
  /\ last = NoCall
  /\ s = NoInstance
  /\ pre = NoInstance
  /\ built = FALSE
  /\ anchorMark = NoAnchor

NextDot == \E inst \in Instances : buildImplied(inst)

SpecDot == InitDot /\ [][NextDot]_vars

\* a dot with an anchor: the host is rebuilt, anchors are made and evaluated
NextAnchor ==
  \/ \E inst \in AnchorInstances : buildImplied(inst)
  \/ \E name \in AnchorNames : anchor(name)
  \/ buildAnchor

SpecAnchor == InitDot /\ [][NextAnchor]_vars

(***************************************************************************)
(* Properties of the ordinal scale                                         *)
(***************************************************************************)
\* the position (from 0) of the first occurrence of v in q
PositionIn(q, v) == (CHOOSE k \in 1..Len(q) : q[k] = v /\ \A m \in 1..(k - 1) : q[m] # v) - 1

NoDuplicates(q) == \A j, k \in 1..Len(q) : q[j] = q[k] => j = k

\* the first occurrence of each value of q, in first-seen order
RECURSIVE FirstOccurrences(_)
FirstOccurrences(q) ==
  IF q = <<>> THEN <<>>
  ELSE LET front == FirstOccurrences(SubSeq(q, 1, Len(q) - 1))
           v == q[Len(q)]
       IN  IF v \in Elems(front) THEN front ELSE Append(front, v)

IsPrefix(p, q) == Len(p) <= Len(q) /\ SubSeq(q, 1, Len(p)) = p

\* range[k mod range.length]; undefined for an empty range
RangeAt(rr, k) ==
  IF Len(rr.elems) = 0 THEN Undefined ELSE rr.elems[(k % Len(rr.elems)) + 1]

\* the band argument is omitted or a fraction in [0, 1]
IsFraction(band) ==
  band = Undefined \/ (Ge(band, Num(0)) /\ Le(band, Num(1)))

Constant(n, v) == [k \in 1..n |-> v]

\* C1: scale(x) returns range[index[x] mod range.length]; a value already in
\* the domain keeps its index and leaves the domain alone, a value not yet in
\* the domain is appended and gets the domain length before the call as index.
C1_ScaleContract ==
  last.op = "scale" =>
    LET x == last.x
        d0 == last.d0
    IN  IF x \in Elems(d0)
        THEN /\ d = d0
             /\ last.ret = RangeAt(r, PositionIn(d0, x))
        ELSE /\ d = Append(d0, x)
             /\ x \in DOMAIN i
             /\ i[x] = Len(d0)
             /\ last.ret = RangeAt(r, Len(d0))

\* C2: the domain has no duplicates and index[v] is the position of v in the
\* domain; domain(...) keeps the first occurrence of each value in first-seen
\* order; an invocation never removes or reorders entries.
C2_DomainInvariant ==
  /\ NoDuplicates(d)
  /\ \A v \in Elems(d) : v \in DOMAIN i /\ i[v] = PositionIn(d, v)
  /\ last.op = "domain" => d = FirstOccurrences(last.arr)
  /\ last.op = "scale" => IsPrefix(last.d0, d)

\* C3: split(min, max) with N >= 1 and min # max leaves exactly the N points
\* min + step/2 + k*step, step = (max - min)/N, and records min, max and step.
C3_SplitPoints ==
  (last.op = "split" /\ Len(d) >= 1 /\ last.min # last.max) =>
    LET N == Len(d)
        step == Div(Sub(last.max, last.min), Num(N))
    IN  /\ ~last.raised
        /\ Len(r.elems) = N
        /\ \A k \in 0..(N - 1) :
             r.elems[k + 1] =
               Add(Add(last.min, Div(step, Num(2))), Mul(Num(k), step))
        /\ N >= 1 => /\ Sub(r.elems[1], last.min) = Div(step, Num(2))
                     /\ Sub(last.max, r.elems[N]) = Div(step, Num(2))
        /\ r.min = last.min
        /\ r.max = last.max
        /\ r.step = step

C3_Witness ==
  /\ last.op = "split"
  /\ Len(d) = 2
  /\ last.min = Num(30)
  /\ last.max = Num(150)
  /\ r.elems = <<Num(60), Num(120)>>
  /\ r.step = Num(60)

\* C4: after any split operation (band omitted or in [0, 1] for the banded
\* ones) the range has exactly as many entries as the domain has values.
C4_SplitLength ==
  (last.op \in SplitOps /\ IsFraction(last.band)) =>
    /\ ~last.raised
    /\ Len(r.elems) = Len(d)

\* C5: every split operation called with max = min leaves, for every domain
\* length N, N positions all equal to min, and raises nothing.
C5_Degenerate ==
  (last.op \in SplitOps /\ last.min = last.max) =>
    /\ ~last.raised
    /\ r.elems = Constant(Len(d), last.min)

\* C6: splitBanded(min, max, band) with N >= 1 and min < max lays out N bands
\* of width B with gaps g, the first band starting at min + g and the last
\* ending at max - g, so that N*B + (N+1)*g = max - min.  Fractional mode:
\* step = (max-min)/(N+1-band), B = range.band = step*band, g = range.margin
\* = step - B.  Fixed-width mode (band < 0): B = range.band = -band,
\* g = (max-min-N*B)/(N+1).  In both, range[k] = min + g + k*(g + B).
C6_Banded ==
  (last.op = "splitBanded" /\ Len(d) >= 1 /\ Lt(last.min, last.max)
     /\ (IsFraction(last.band) \/ Lt(last.band, Num(0)))) =>
    LET N == Len(d)
        R == Sub(last.max, last.min)
        b == IF last.band = Undefined THEN Num(1) ELSE last.band
        fixed == Lt(b, Num(0))
        fstep == Div(R, Sub(Num(N + 1), b))
        B == IF fixed THEN Neg(b) ELSE Mul(fstep, b)
        g == IF fixed THEN Div(Sub(R, Mul(Num(N), B)), Num(N + 1))
             ELSE Sub(fstep, B)
    IN  /\ ~last.raised
        /\ Len(r.elems) = N
        /\ r.band = B
        /\ ~fixed => (r.step = fstep /\ r.margin = g)
        /\ \A k \in 0..(N - 1) :
             r.elems[k + 1] = Add(Add(last.min, g), Mul(Num(k), Add(g, B)))
        /\ r.elems[1] = Add(last.min, g)
        /\ Add(r.elems[N], B) = Sub(last.max, g)
        /\ Add(Mul(Num(N), B), Mul(Num(N + 1), g)) = R

C6_Witness ==
  /\ last.op = "splitBanded"
  /\ last.band = Frac(1, 2)
  /\ last.min = Num(30)
  /\ last.max = Num(150)
  /\ Len(d) = 2
  /\ r.elems = <<Num(54), Num(102)>>
  /\ r.band = Num(24)
  /\ r.margin = Num(24)

\* C7: splitBandedFlushCenter(min, max, band) with N >= 1, min < max and band
\* in [0, 1] leaves the N band centres min + B/2 + k*(M+B), B = (max-min)*
\* band/N, M = (max-min-N*B)/(N-1) (0 when N = 1), so the first band starts at
\* min and the last ends at max; it records band = B, margin = M, step = M+B.
C7_FlushCenter ==
  (last.op = "splitBandedFlushCenter" /\ Len(d) >= 1
     /\ Lt(last.min, last.max) /\ IsFraction(last.band)) =>
    LET N == Len(d)
        R == Sub(last.max, last.min)
        b == IF last.band = Undefined THEN Num(1) ELSE last.band
        B == Div(Mul(R, b), Num(N))
        M == IF N = 1 THEN Num(0)
             ELSE Div(Sub(R, Mul(Num(N), B)), Num(N - 1))
    IN  /\ ~last.raised
        /\ Len(r.elems) = N
        /\ \A k \in 0..(N - 1) :
             r.elems[k + 1] =
               Add(Add(last.min, Div(B, Num(2))), Mul(Num(k), Add(M, B)))
        /\ Sub(r.elems[1], Div(B, Num(2))) = last.min
        /\ Add(r.elems[N], Div(B, Num(2))) = last.max
        /\ r.band = B
        /\ r.margin = M
        /\ r.step = Add(M, B)

\* the range is the one split(range.min, range.max) leaves for the domain
IsSplitLayout ==
  /\ Len(d) >= 1
  /\ IsFinite(r.min)
  /\ IsFinite(r.max)
  /\ Lt(r.min, r.max)
  /\ Len(r.elems) = Len(d)
  /\ LET step == Div(Sub(r.max, r.min), Num(Len(d)))
     IN  \A k \in 0..(Len(d) - 1) :
           r.elems[k + 1] = Add(Add(r.min, Div(step, Num(2))), Mul(Num(k), step))

InvertCase ==
  /\ last.op = "invertIndex"
  /\ Len(d) >= 1
  /\ IsFinite(r.min)
  /\ IsFinite(r.max)
  /\ Lt(r.min, r.max)

C9_InvertEdges ==
  last.op = "invertIndex" =>
    /\ InvertCase =>
         /\ last.ret = Num(Len(d)) => Ge(last.y, r.max)
         /\ Lt(last.y, r.min) => last.ret = Num(0)
    /\ Len(d) = 0 => last.ret = Num(-1)
    /\ (Len(d) >= 1 /\ IsFinite(r.min) /\ r.min = r.max) => last.ret = Num(0)

\* C9, amended: with N >= 1 and range.min < range.max, invertIndex(y) returns
\* N exactly when y >= range.max - S/2, S = (max-min)/N; it returns 0 for
\* every y < range.min, -1 for an empty domain, 0 when range.max = range.min.
C9_InvertEdgesRounded ==
  last.op = "invertIndex" =>
    /\ InvertCase =>
         LET S == Div(Sub(r.max, r.min), Num(Len(d)))
         IN  /\ last.ret = Num(Len(d))
                  <=> Ge(last.y, Sub(r.max, Div(S, Num(2))))
             /\ Lt(last.y, r.min) => last.ret = Num(0)
    /\ Len(d) = 0 => last.ret = Num(-1)
    /\ (Len(d) >= 1 /\ IsFinite(r.min) /\ r.min = r.max) => last.ret = Num(0)

\* y = 140 < max = 150 with N = 2: the result is N
C9_Witness ==
  /\ InvertCase
  /\ Len(d) = 2
  /\ r.min = Num(30)
  /\ r.max = Num(150)
  /\ last.y = Num(140)
  /\ last.ret = Num(2)

(***************************************************************************)
(* Properties of the dot mark                                              *)
(***************************************************************************)
\* C10: after buildImplied, an unset shapeRadius with shapeSize = z becomes
\* sqrt(z) and shapeSize stays z; an unset shapeSize with shapeRadius = rad
\* becomes rad*rad and shapeRadius stays rad; with both unset they are 4.5 and
\* 20.25.  So with at most one supplied, shapeSize = shapeRadius^2.
C10_RadiusSize ==
  built =>
    /\ (pre.shapeRadius = Null /\ pre.shapeSize # Null) =>
         /\ s.shapeSize = pre.shapeSize
         /\ Ge(s.shapeRadius, Num(0))
         /\ Mul(s.shapeRadius, s.shapeRadius) = pre.shapeSize
    /\ (pre.shapeSize = Null /\ pre.shapeRadius # Null) =>
         /\ s.shapeRadius = pre.shapeRadius
         /\ s.shapeSize = Mul(pre.shapeRadius, pre.shapeRadius)
    /\ (pre.shapeRadius = Null /\ pre.shapeSize = Null) =>
         /\ s.shapeRadius = Frac(45, 10)
         /\ s.shapeSize = Frac(2025, 100)
    /\ (pre.shapeRadius = Null \/ pre.shapeSize = Null) =>
         s.shapeSize = Mul(s.shapeRadius, s.shapeRadius)

C10_Witness ==
  /\ built
  /\ pre.shapeRadius = Null
  /\ pre.shapeSize = Num(4)
  /\ s.shapeRadius = Num(2)
  /\ s.shapeSize = Num(4)

\* C11: buildImplied overwrites _width and _height, whatever they held, from
\* the resolved shapeRadius r and the aspect ratio a (1 when unset): when
\* a = 1 or a < 0 both are 2r; otherwise _height = 2r/sqrt(a) and
\* _width = a * _height, so _width/_height = a (where _height is not 0) and
\* _width * _height = 4r^2 for every positive a.
C11_WidthHeight ==
  built =>
    LET a == aspectOrOne(pre.aspectRatio)
        rad == s.shapeRadius
        twoR == Mul(Num(2), rad)
    IN  /\ (StrictEq(a, Num(1)) \/ Lt(a, Num(0))) =>
             /\ s._height = twoR
             /\ s._width = twoR
        /\ ~(StrictEq(a, Num(1)) \/ Lt(a, Num(0))) =>
             /\ Mul(s._height, MathSqrt(a)) = twoR
             /\ s._width = Mul(a, s._height)
        /\ Gt(a, Num(0)) =>
             /\ s._width = Mul(a, s._height)
             /\ (s._height # Num(0)) => Div(s._width, s._height) = a
             /\ Mul(s._width, s._height) = Mul(Num(4), Mul(rad, rad))

C11_Witness ==
  /\ built
  /\ pre.aspectRatio = Frac(1, 4)
  /\ pre.shapeRadius = Frac(9, 2)
  /\ pre._width = Num(7)
  /\ pre._height = Num(7)
  /\ s._height = Num(18)
  /\ s._width = Frac(9, 2)

(***************************************************************************)
(* Properties of the dot's anchors                                         *)
(***************************************************************************)
Half(x) == Div(x, Num(2))

\* the anchor table with every coordinate taken from the host instance h;
\* bottomEdge is the field the top anchor's bottom is measured from
AnchorTable(name, h, bottomEdge) ==
  CASE name = "top" ->
         [left |-> h.left, right |-> Null, top |-> Null,
          bottom |-> Add(bottomEdge, Half(h._height)),
          textAlign |-> "center", textBaseline |-> "bottom"]
    [] name = "bottom" ->
         [left |-> h.left, right |-> Null,
          top |-> Add(h.top, Half(h._height)), bottom |-> Null,
          textAlign |-> "center", textBaseline |-> "top"]
    [] name = "left" ->
         [left |-> Null, right |-> Add(h.right, Half(h._width)),
          top |-> h.top, bottom |-> Null,
          textAlign |-> "right", textBaseline |-> "middle"]
    [] name = "right" ->
         [left |-> Add(h.left, Half(h._width)), right |-> Null,
          top |-> h.top, bottom |-> Null,
          textAlign |-> "left", textBaseline |-> "middle"]
    [] name = "center" ->
         [left |-> h.left, right |-> Null, top |-> h.top, bottom |-> Null,
          textAlign |-> "center", textBaseline |-> "middle"]

OneOfEachPair(sc) ==
  /\ (sc.left = Null) # (sc.right = Null)
  /\ (sc.top = Null) # (sc.bottom = Null)

\* C12 as stated: an evaluated anchor holds the table's values, the top
\* anchor's bottom being s.top + s._height/2, and exactly one of left/right
\* and one of top/bottom is non-null.
C12_AnchorTable ==
  anchorMark.fresh =>
    /\ anchorMark.scene = AnchorTable(anchorMark.name, s, s.top)
    /\ OneOfEachPair(anchorMark.scene)

\* C12: an evaluated anchor holds, from the host's instance s: top -> left =
\* s.left, bottom = s.bottom + s._height/2, center/bottom; bottom -> left =
\* s.left, top = s.top + s._height/2, center/top; left -> right = s.right +
\* s._width/2, top = s.top, right/middle; right -> left = s.left +
\* s._width/2, top = s.top, left/middle; center -> left = s.left, top =
\* s.top, center/middle; every other coordinate is null, so exactly one of
\* left/right and one of top/bottom is non-null.
C12_AnchorTableBottomEdge ==
  anchorMark.fresh =>
    /\ anchorMark.scene = AnchorTable(anchorMark.name, s, s.bottom)
    /\ OneOfEachPair(anchorMark.scene)

C12_Witness ==
  /\ anchorMark.fresh
  /\ anchorMark.name = "top"
  /\ s.left = Num(10)
  /\ s.top = Num(20)
  /\ s.bottom = Num(70)
  /\ s._height = Frac(9, 2)
  /\ anchorMark.scene.left = Num(10)
  /\ anchorMark.scene.bottom = Frac(289, 4)
  /\ anchorMark.scene.top = Null
  /\ anchorMark.scene.right = Null

\* the four coordinates of an anchor's scene
Coordinates(sc) ==
  [left |-> sc.left, right |-> sc.right, top |-> sc.top, bottom |-> sc.bottom]

HostCoordinates(name, h) == Coordinates(AnchorTable(name, h, h.bottom))

\* C13: every evaluation of an anchor's left, right, top and bottom returns
\* the values computed from the host's instance of the current build pass,
\* however often the host was rebuilt since the anchor was made.
C13_NeverStale ==
  [][(/\ anchorMark.name # ""
      /\ anchorMark'.name = anchorMark.name
      /\ s' = s
      /\ anchorMark'.fresh)
     => Coordinates(anchorMark'.scene) = HostCoordinates(anchorMark.name, s)]_vars

\* an anchor made on a built host, evaluated after two further rebuilds with
\* other geometry: its coordinates are those of the current instance and of
\* neither earlier one
C13_Witness ==
  /\ anchorMark.fresh
  /\ anchorMark.name = "right"
  /\ anchorMark.at # NoInstance
  /\ Coordinates(anchorMark.scene) = HostCoordinates("right", s)
  /\ Coordinates(anchorMark.scene) # HostCoordinates("right", anchorMark.prev)
  /\ Coordinates(anchorMark.scene) # HostCoordinates("right", anchorMark.at)
  /\ anchorMark.prev # anchorMark.at
  /\ s._width # anchorMark.prev._width
  /\ s.left # anchorMark.at.left

====
